---- MODULE Spec2Model ----
(***************************************************************************)
(* The conversational query pipeline of src/app.py: the Safety Gate        *)
(* (is_safe_sql), the synthesizer post-processing, the escalation workflow *)
(* (create_and_send_issue, send_mail_to_upstream) and the two-state        *)
(* conversation machine of index().                                        *)
(*                                                                         *)
(* Text is a sequence of one-character strings, so that strip(), upper(),  *)
(* lower(), startswith() and the \b word boundary of WRITE_PATTERN are     *)
(* computed character by character, as Python computes them.               *)
(***************************************************************************)
EXTENDS Naturals, Sequences, FiniteSets, TLC

VARIABLES
    session,      \* per browser session: the Flask session dict (chat, state, pending_sql, latest_files)
    pc,           \* per session: where its request is inside index() ("idle" between requests)
    frame,        \* per session: the locals of a request suspended inside create_and_send_issue
    ISSUE_STORE,  \* the process-wide issue mapping, id -> record
    env,          \* the process environment read by send_mail_to_upstream
    last,         \* observation: the external calls made by the latest step
    gated,        \* observation: per session, the statements is_safe_sql accepted in a collect turn
    probe         \* the argument and result of a pure function under test

vars == <<session, pc, frame, ISSUE_STORE, env, last, gated, probe>>

----------------------------------------------------------------------------
(* Bounds *)

\* A session starts a new turn only while its transcript is shorter than this.
MaxChat == 6
\* The same, where two sessions run concurrently.
MaxChatConc == 4
\* Number of fragments a Safety Gate input is built from.
MaxFrags == 3
\* Number of fragments a Table Heuristic input is built from.
MaxWords == 4
\* The transcript bound where downloads are explored: room for two runs.
MaxChatFiles == 10

----------------------------------------------------------------------------
(* Text primitives (Python str methods) *)

Chars(str) == [i \in 1..Len(str) |-> SubSeq(str, i, i)]

Lowers == Chars("abcdefghijklmnopqrstuvwxyz")
Uppers == Chars("ABCDEFGHIJKLMNOPQRSTUVWXYZ")
Digits == {"0", "1", "2", "3", "4", "5", "6", "7", "8", "9"}
Whitespace == {" ", "\t", "\n", "\r"}

Range(f) == {f[i] : i \in DOMAIN f}

\* The case mappings of the letters, as tables
ToUpper == [c \in Range(Lowers) |-> Uppers[CHOOSE i \in DOMAIN Lowers : Lowers[i] = c]]
ToLower == [c \in Range(Uppers) |-> Lowers[CHOOSE i \in DOMAIN Uppers : Uppers[i] = c]]

upper_char(c) == IF c \in DOMAIN ToUpper THEN ToUpper[c] ELSE c

lower_char(c) == IF c \in DOMAIN ToLower THEN ToLower[c] ELSE c

upper(s) == [i \in 1..Len(s) |-> upper_char(s[i])]

lower(s) == [i \in 1..Len(s) |-> lower_char(s[i])]

\* str.strip(chars): drop the leading and trailing characters that are in chars
strip_chars(s, chars) ==
    LET keep == {i \in 1..Len(s) : s[i] \notin chars}
    IN IF keep = {} THEN <<>>
       ELSE SubSeq(s, CHOOSE i \in keep : \A j \in keep : i <= j,
                      CHOOSE i \in keep : \A j \in keep : j <= i)

strip(s) == strip_chars(s, Whitespace)

startswith(s, p) == Len(s) >= Len(p) /\ SubSeq(s, 1, Len(p)) = p

\* \w of the re module
WordChars == Range(Lowers) \cup Range(Uppers) \cup Digits \cup {"_"}

WordChar(c) == c \in WordChars

----------------------------------------------------------------------------
(* 4) Safety helpers *)

WriteVerbs ==
    {Chars("INSERT"), Chars("UPDATE"), Chars("DELETE"), Chars("DROP"), Chars("TRUNCATE"),
     Chars("ALTER"), Chars("CREATE"), Chars("REPLACE"), Chars("GRANT"), Chars("REVOKE")}

\* \b at the gap before position i of s (i = Len(s)+1: at the end)
WordBoundary(s, i) ==
    LET before == i > 1 /\ WordChar(s[i - 1])
        after  == i <= Len(s) /\ WordChar(s[i])
    IN before # after

\* WRITE_PATTERN.search(sql) without re.IGNORECASE
WRITE_PATTERN_search_cased(sql) ==
    \E v \in WriteVerbs : \E i \in 1..Len(sql) :
        /\ i + Len(v) - 1 <= Len(sql)
        /\ SubSeq(sql, i, i + Len(v) - 1) = v
        /\ WordBoundary(sql, i)
        /\ WordBoundary(sql, i + Len(v))

\* WRITE_PATTERN.search(sql): some verb matches at some position, letter case
\* ignored, with a word boundary on both sides
WRITE_PATTERN_search(sql) ==
    \E v \in WriteVerbs : \E i \in 1..Len(sql) :
        /\ i + Len(v) - 1 <= Len(sql)
        /\ WordBoundary(sql, i)
        /\ WordBoundary(sql, i + Len(v))
        /\ upper(SubSeq(sql, i, i + Len(v) - 1)) = v

is_safe_sql(sql) ==
    IF WRITE_PATTERN_search(sql) THEN FALSE
    ELSE startswith(upper(strip(sql)), Chars("SELECT"))

----------------------------------------------------------------------------
(* 7) SQL generation: the post-processing of the reply of the language model *)

\* The character U+0060 (a string literal cannot hold it), as one character.
Backtick == "U+0060"

Fence == <<Backtick, Backtick, Backtick>>

generate_sql_for_question(content) ==
    LET sql0 == strip(content)
    IN IF startswith(sql0, Fence)
       THEN LET sql1 == strip_chars(sql0, {Backtick})
            IN IF startswith(lower(sql1), Chars("sql"))
               THEN strip(SubSeq(sql1, 4, Len(sql1)))
               ELSE sql1
       ELSE sql0

----------------------------------------------------------------------------
(* 5) Table detection *)

ORDER_KEYWORDS ==
    {Chars("order"), Chars("orders"), Chars("order_id"), Chars("order header"),
     Chars("status"), Chars("consignment"), Chars("order_type"), Chars("creation_date"),
     Chars("ship_by_date"), Chars("deliver_by_date")}

SKU_KEYWORDS ==
    {Chars("sku"), Chars("sku_id"), Chars("stroke"), Chars("description"), Chars("tdept"),
     Chars("color"), Chars("item"), Chars("product")}

LOCATION_KEYWORDS ==
    {Chars("location"), Chars("warehouse"), Chars("zone"), Chars("site"),
     Chars("pick_sequence"), Chars("modes"), Chars("site_code")}

INVENTORY_KEYWORDS ==
    {Chars("inventory"), Chars("stock"), Chars("qty_on_hand"), Chars("qty_allocated"),
     Chars("availability"), Chars("balance")}

\* k in q
Contains(q, k) ==
    \E i \in 1..(Len(q) + 1) : i + Len(k) - 1 <= Len(q) /\ SubSeq(q, i, i + Len(k) - 1) = k

\* any(k in q for k in keywords)
AnyIn(keywords, q) == \E k \in keywords : Contains(q, k)

\* The heuristic with the sku keywords tested before the order keywords
detect_table_sku_first(question) ==
    LET q == lower(question)
    IN IF AnyIn(SKU_KEYWORDS, q)
       THEN (IF AnyIn(INVENTORY_KEYWORDS, q) THEN "sku JOIN inventory" ELSE "sku")
       ELSE IF AnyIn(ORDER_KEYWORDS, q)
       THEN "order_header"
       ELSE IF AnyIn(LOCATION_KEYWORDS, q)
       THEN (IF AnyIn(INVENTORY_KEYWORDS, q) THEN "location JOIN inventory" ELSE "location")
       ELSE IF AnyIn(INVENTORY_KEYWORDS, q)
       THEN "inventory"
       ELSE "order_header"

detect_table(question) ==
    LET q == lower(question)
    IN IF AnyIn(ORDER_KEYWORDS, q)
       THEN (IF AnyIn(SKU_KEYWORDS, q) THEN "order_header JOIN order_line" ELSE "order_header")
       ELSE IF AnyIn(SKU_KEYWORDS, q)
       THEN (IF AnyIn(INVENTORY_KEYWORDS, q) THEN "sku JOIN inventory" ELSE "sku")
       ELSE IF AnyIn(LOCATION_KEYWORDS, q)
       THEN (IF AnyIn(INVENTORY_KEYWORDS, q) THEN "location JOIN inventory" ELSE "location")
       ELSE IF AnyIn(INVENTORY_KEYWORDS, q)
       THEN "inventory"
       ELSE "order_header"

----------------------------------------------------------------------------
(* 8) File save helper *)

\* The values uuid.uuid4().hex takes in the model.
FileTokens == {"9f3c51ab", "c4d2e6f0"}

\* The two paths built from different tokens
save_df_to_files_two_tokens(unique) ==
    [csv |-> <<"results_", unique, ".csv">>,
     excel |-> <<"results_", CHOOSE u \in FileTokens : u # unique, ".xlsx">>]

\* The two paths share the token drawn by the call.
save_df_to_files(unique) ==
    [csv |-> <<"results_", unique, ".csv">>, excel |-> <<"results_", unique, ".xlsx">>]

----------------------------------------------------------------------------
(* 9) Session chat helpers.  A session is the record of the keys index()   *)
(* uses; an optional key is a set, empty when the key is absent.           *)

Greeting == <<"Hi - I'm your AI Support Bot. Ask me anything about orders, SKUs, locations, or inventory.">>

Msg(role, content) == [role |-> role, content |-> content]

\* reset_chat() without the two pops
reset_chat_keeps(sess) ==
    [sess EXCEPT !.chat = <<Msg("assistant", Greeting)>>, !.state = "collect"]

reset_chat(sess) ==
    [sess EXCEPT !.chat = <<Msg("assistant", Greeting)>>,
                 !.state = "collect",
                 !.pending_sql = {},
                 !.latest_files = {}]

append_message(sess, role, content) ==
    [sess EXCEPT !.chat = Append(@, Msg(role, content))]

\* The session a first request creates: index() calls reset_chat() when the
\* session holds no chat.
NewSession ==
    reset_chat([chat |-> <<>>, state |-> "collect", pending_sql |-> {}, latest_files |-> {}])

----------------------------------------------------------------------------
(* 10-12) Issue store and mail *)

\* The values uuid.uuid4().hex[:8] takes in the model.  Nothing in
\* create_and_send_issue compares a drawn id with the ids already stored.
IssueIds == {"0a1b2c3d", "7e8f9a0b"}

\* The environments explored: SMTP_USER/SMTP_PASS/UPSTREAM_EMAIL all set or
\* not, and the optional SMTP_PORT and SMTP_USE_SSL (a set: empty when unset).
MailEnvs ==
    {[creds |-> FALSE, SMTP_PORT |-> {},    SMTP_USE_SSL |-> {}],
     [creds |-> TRUE,  SMTP_PORT |-> {},    SMTP_USE_SSL |-> {}],
     [creds |-> TRUE,  SMTP_PORT |-> {587}, SMTP_USE_SSL |-> {}],
     [creds |-> TRUE,  SMTP_PORT |-> {},    SMTP_USE_SSL |-> {Chars("True")}]}

\* The attempt list with STARTTLS:587 ahead of SSL:465
mail_attempts_starttls_first(e) ==
    IF e.SMTP_PORT # {} \/ e.SMTP_USE_SSL # {}
    THEN LET use_ssl == \E v \in e.SMTP_USE_SSL :
                            lower(v) \in {Chars("1"), Chars("true"), Chars("yes")}
             port == IF e.SMTP_PORT # {} THEN CHOOSE p \in e.SMTP_PORT : TRUE
                     ELSE IF use_ssl THEN 465 ELSE 587
         IN <<<<use_ssl, port>>>>
    ELSE <<<<FALSE, 587>>, <<TRUE, 465>>>>

\* The attempt list of send_mail_to_upstream: <<use_ssl, port>> pairs.
mail_attempts(e) ==
    IF e.SMTP_PORT # {} \/ e.SMTP_USE_SSL # {}
    THEN LET use_ssl == \E v \in e.SMTP_USE_SSL :
                            lower(v) \in {Chars("1"), Chars("true"), Chars("yes")}
             port == IF e.SMTP_PORT # {} THEN CHOOSE p \in e.SMTP_PORT : TRUE
                     ELSE IF use_ssl THEN 465 ELSE 587
         IN <<<<use_ssl, port>>>>
    ELSE <<<<TRUE, 465>>, <<FALSE, 587>>>>

\* The record create_and_send_issue stores.
IssueRecord(user_question, sql, table, details) ==
    [question |-> user_question, sql |-> sql, table |-> table,
     details |-> details, status |-> "open"]

\* ISSUE_STORE[issue_id] = record
store_put(store, issue_id, record) ==
    [k \in DOMAIN store \cup {issue_id} |-> IF k = issue_id THEN record ELSE store[k]]

\* The locals of a request inside create_and_send_issue / send_mail_to_upstream
\* (record and ok are sets: empty while not yet assigned; stored counts the
\* writes the call made to ISSUE_STORE).
NoFrame ==
    [issue_id |-> "", record |-> {}, stored |-> 0, attempts |-> <<>>, tried |-> <<>>, ok |-> {}]

----------------------------------------------------------------------------
(* 13) The route index(): inputs and messages *)

Sessions == {"s1", "s2"}

\* request.form["action"]; any value but "reset" is handled as "message".
FormActions == {"message", "reset"}

\* request.form["message"] as submitted, before .strip()
RawTexts ==
    {Chars("  "), Chars(" Yes"), Chars("no"), Chars("Close Chat "), Chars("sku stock")}

ClosePhrases ==
    {Chars("close"), Chars("end"), Chars("stop"), Chars("bye"), Chars("exit"),
     Chars("close chat")}

Affirmatives == {Chars("yes"), Chars("y")}

\* resp.content of the language model
LlmReplies ==
    {Fence \o Chars("sql\nSELECT 1\n") \o Fence,
     Chars(" select 2 "),
     Chars("DROP TABLE orders;")}

ClosedMsg == <<"Chat session closed. You can start a new request anytime.">>
RejectMsg == <<"I couldn't generate a safe SQL for that. Please rephrase.">>
PromptMsg == <<"I found a query for that. Do you want me to run it? (Yes/No)">>
DeclineMsg == <<"Okay, not running that query. Ask me another question.">>
ResultsMsg == <<"Here are the results:<br>", "preview">>
LinksMsg == <<"Download CSV", " | ", "Download Excel">>
AnotherMsg == <<"Would you like to make another request or type 'close chat' to end?">>
EscalatedMsg(issue_id) == <<"No data found. Issue **", issue_id, "** escalated upstream.">>
MailFailedMsg(issue_id) == <<"No data found, but failed to send email. Issue ID: ", issue_id>>
ErrorMsg(e) == <<"Error: ", e>>

----------------------------------------------------------------------------
(* 13) The route index(): the branches of a POST *)

\* The latest step: the session, the branch taken (op), the local `state` read
\* at line 287, and the collaborators called: the synthesizer (llm, with sql
\* the statement it returned) and run_sql_to_df (ran: the statements passed).
Obs(s, op, state, llm, sql, ran) ==
    [s |-> s, op |-> op, state |-> state, llm |-> llm, sql |-> sql, ran |-> ran]

NoObs == Obs("", "", "", FALSE, {}, {})

Idle(s) == pc[s] = "idle"

\* user_text.lower() in {"close", ...}: line 294
IsClose(user_text) == lower(user_text) \in ClosePhrases

\* The submitted texts by the check of lines 291-305 that stops them:
\* a close phrase after .strip(); else nothing left after .strip()
CloseRaw == {raw \in RawTexts : IsClose(strip(raw))}
EmptyRaw == {raw \in RawTexts \ CloseRaw : strip(raw) = <<>>}

\* The texts that pass both checks
MessageRaw == RawTexts \ (CloseRaw \cup EmptyRaw)

\* user_text.lower() in {"yes", "y"}: line 322
IsYes(user_text) == lower(user_text) \in Affirmatives

\* The request reaches line 307: no close phrase, not the reset action, text left
IsMessage(a, raw) == a # "reset" /\ raw \in MessageRaw

\* The except clause without the assignment of line 351
on_exception_keeps_state(sess, e) ==
    append_message(sess, "assistant", ErrorMsg(e))

\* The except clause of index(): lines 349-352
on_exception(sess, e) ==
    [append_message(sess, "assistant", ErrorMsg(e)) EXCEPT !.state = "collect"]

\* The collect branch that keeps a pending_sql the session already holds
\* (session.setdefault in place of the assignment of line 316)
collect_branch_keeps_pending(sess, sql) ==
    IF ~is_safe_sql(sql)
    THEN append_message(sess, "assistant", RejectMsg)
    ELSE [append_message([sess EXCEPT !.pending_sql = IF @ = {} THEN {sql} ELSE @],
                         "assistant", PromptMsg)
            EXCEPT !.state = "confirm"]

\* The collect branch with the Safety Gate's verdict ignored
collect_branch_ungated(sess, sql) ==
    [append_message([sess EXCEPT !.pending_sql = {sql}], "assistant", PromptMsg)
        EXCEPT !.state = "confirm"]

\* The collect branch with the candidate stored before the gate is asked
collect_branch_stores_first(sess, sql) ==
    IF ~is_safe_sql(sql)
    THEN append_message([sess EXCEPT !.pending_sql = {sql}], "assistant", RejectMsg)
    ELSE [append_message([sess EXCEPT !.pending_sql = {sql}], "assistant", PromptMsg)
            EXCEPT !.state = "confirm"]

\* The collect branch after the synthesizer returned sql: lines 312-319
collect_branch(sess, sql) ==
    IF ~is_safe_sql(sql)
    THEN append_message(sess, "assistant", RejectMsg)
    ELSE [append_message([sess EXCEPT !.pending_sql = {sql}], "assistant", PromptMsg)
            EXCEPT !.state = "confirm"]

\* The decline branch: lines 344-347
decline_branch(sess) ==
    [append_message(sess, "assistant", DeclineMsg) EXCEPT !.state = "collect"]

\* The non-empty result: lines 336-343
rows_branch(sess, unique) ==
    [append_message(
        append_message(
          append_message([sess EXCEPT !.latest_files = {save_df_to_files(unique)}],
                         "assistant", ResultsMsg),
          "assistant", LinksMsg),
        "assistant", AnotherMsg)
     EXCEPT !.state = "collect"]

\* The reply after an escalation that leaves the session awaiting an answer
escalation_reply_stays(sess, issue_id, ok) ==
    append_message(sess, "assistant",
                   IF ok THEN EscalatedMsg(issue_id) ELSE MailFailedMsg(issue_id))

\* The reply after an escalation: lines 329-334
escalation_reply(sess, issue_id, ok) ==
    [append_message(sess, "assistant",
                    IF ok THEN EscalatedMsg(issue_id) ELSE MailFailedMsg(issue_id))
     EXCEPT !.state = "collect"]

\* A close phrase: lines 294-297
CloseTurn(s, a, raw) ==
    /\ Idle(s)
    /\ raw \in CloseRaw
    /\ session' = [session EXCEPT
                     ![s] = reset_chat(append_message(@, "assistant", ClosedMsg))]
    /\ last' = Obs(s, "close", session[s].state, FALSE, {}, {})
    /\ UNCHANGED <<pc, frame, ISSUE_STORE, env, gated, probe>>

\* The reset that records the accompanying text in the new transcript
ResetTurnAppends(s, a, raw) ==
    /\ Idle(s)
    /\ raw \notin CloseRaw /\ a = "reset"
    /\ session' = [session EXCEPT
                     ![s] = IF strip(raw) = <<>> THEN reset_chat(@)
                            ELSE append_message(reset_chat(@), "user", strip(raw))]
    /\ last' = Obs(s, "reset", session[s].state, FALSE, {}, {})
    /\ UNCHANGED <<pc, frame, ISSUE_STORE, env, gated, probe>>

\* action == "reset": lines 299-301
ResetTurn(s, a, raw) ==
    /\ Idle(s)
    /\ raw \notin CloseRaw /\ a = "reset"
    /\ session' = [session EXCEPT ![s] = reset_chat(@)]
    /\ last' = Obs(s, "reset", session[s].state, FALSE, {}, {})
    /\ UNCHANGED <<pc, frame, ISSUE_STORE, env, gated, probe>>

\* An empty text taken as an answer: in confirm it declines
EmptyTurnDeclines(s, a, raw) ==
    /\ Idle(s)
    /\ a # "reset" /\ raw \in EmptyRaw
    /\ session' = [session EXCEPT
                     ![s] = IF @.state = "confirm" THEN decline_branch(@) ELSE @]
    /\ last' = Obs(s, "empty", session[s].state, FALSE, {}, {})
    /\ UNCHANGED <<pc, frame, ISSUE_STORE, env, gated, probe>>

\* Nothing left after .strip(): lines 303-305 (the flash is shown once and
\* is no part of the conversation)
EmptyTurn(s, a, raw) ==
    /\ Idle(s)
    /\ a # "reset" /\ raw \in EmptyRaw
    /\ last' = Obs(s, "empty", session[s].state, FALSE, {}, {})
    /\ UNCHANGED <<session, pc, frame, ISSUE_STORE, env, gated, probe>>

\* The synthesizer called, and raising, before the user's text is appended
CollectFailsBeforeAppend(s, a, raw) ==
    /\ Idle(s)
    /\ IsMessage(a, raw)
    /\ session[s].state = "collect"
    /\ session' = [session EXCEPT ![s] = on_exception(@, "synthesis failed")]
    /\ last' = Obs(s, "collect_error", session[s].state, TRUE, {}, {})
    /\ UNCHANGED <<pc, frame, ISSUE_STORE, env, gated, probe>>

\* state == "collect", the synthesizer raises: lines 307-311, 349-352
CollectFails(s, a, raw) ==
    /\ Idle(s)
    /\ IsMessage(a, raw)
    /\ session[s].state = "collect"
    /\ session' = [session EXCEPT
                     ![s] = on_exception(append_message(@, "user", strip(raw)),
                                         "synthesis failed")]
    /\ last' = Obs(s, "collect_error", session[s].state, TRUE, {}, {})
    /\ UNCHANGED <<pc, frame, ISSUE_STORE, env, gated, probe>>

\* state == "collect", the synthesizer returns content: lines 307-319
CollectTurn(s, a, raw, content) ==
    LET sql == generate_sql_for_question(content)
    IN /\ Idle(s)
       /\ IsMessage(a, raw)
       /\ session[s].state = "collect"
       /\ session' = [session EXCEPT
                        ![s] = collect_branch(append_message(@, "user", strip(raw)), sql)]
       /\ gated' = [gated EXCEPT ![s] = IF is_safe_sql(sql) THEN @ \cup {sql} ELSE @]
       /\ last' = Obs(s, "collect", session[s].state, TRUE, {sql}, {})
       /\ UNCHANGED <<pc, frame, ISSUE_STORE, env, probe>>

\* state == "confirm", anything but yes/y: lines 307, 321-322, 344-347
ConfirmDecline(s, a, raw) ==
    /\ Idle(s)
    /\ IsMessage(a, raw)
    /\ session[s].state = "confirm"
    /\ ~IsYes(strip(raw))
    /\ session' = [session EXCEPT
                     ![s] = decline_branch(append_message(@, "user", strip(raw)))]
    /\ last' = Obs(s, "decline", session[s].state, FALSE, {}, {})
    /\ UNCHANGED <<pc, frame, ISSUE_STORE, env, gated, probe>>

\* state == "confirm", yes/y, run_sql_to_df raises: lines 322-324, 349-352
\* (session.get("pending_sql") is None when the key is absent, and
\* pd.read_sql(None, ...) raises)
ConfirmRunFails(s, a, raw) ==
    /\ Idle(s)
    /\ IsMessage(a, raw)
    /\ session[s].state = "confirm"
    /\ IsYes(strip(raw))
    /\ session' = [session EXCEPT
                     ![s] = on_exception(append_message(@, "user", strip(raw)),
                                         "data access failed")]
    /\ last' = Obs(s, "run_error", session[s].state, FALSE, {}, session[s].pending_sql)
    /\ UNCHANGED <<pc, frame, ISSUE_STORE, env, gated, probe>>

\* state == "confirm", yes/y, rows returned: lines 322-325, 336-343
ConfirmRunRows(s, a, raw, unique) ==
    /\ Idle(s)
    /\ IsMessage(a, raw)
    /\ session[s].state = "confirm"
    /\ IsYes(strip(raw))
    /\ session[s].pending_sql # {}
    /\ session' = [session EXCEPT
                     ![s] = rows_branch(append_message(@, "user", strip(raw)), unique)]
    /\ last' = Obs(s, "run_rows", session[s].state, FALSE, {}, session[s].pending_sql)
    /\ UNCHANGED <<pc, frame, ISSUE_STORE, env, gated, probe>>

\* state == "confirm", yes/y, no rows: lines 322-328 and, inside
\* create_and_send_issue, line 264 (the id is drawn)
ConfirmRunEmpty(s, a, raw, issue_id) ==
    /\ Idle(s)
    /\ IsMessage(a, raw)
    /\ session[s].state = "confirm"
    /\ IsYes(strip(raw))
    /\ session[s].pending_sql # {}
    /\ session' = [session EXCEPT ![s] = append_message(@, "user", strip(raw))]
    /\ pc' = [pc EXCEPT ![s] = "store"]
    /\ frame' = [frame EXCEPT
                   ![s] = [NoFrame EXCEPT
                             !.issue_id = issue_id,
                             !.record = {IssueRecord(strip(raw),
                                                     CHOOSE q \in session[s].pending_sql : TRUE,
                                                     detect_table(strip(raw)),
                                                     "No rows returned")}]]
    /\ last' = Obs(s, "run_empty", session[s].state, FALSE, {}, session[s].pending_sql)
    /\ UNCHANGED <<ISSUE_STORE, env, gated, probe>>

\* create_and_send_issue lines 266-272, then send_mail_to_upstream up to its
\* attempt list: lines 207-234
StoreIssue(s) ==
    /\ pc[s] = "store"
    /\ ISSUE_STORE' = store_put(ISSUE_STORE, frame[s].issue_id,
                                CHOOSE r \in frame[s].record : TRUE)
    /\ IF ~env.creds
       THEN /\ frame' = [frame EXCEPT ![s].stored = @ + 1, ![s].ok = {FALSE}]
            /\ pc' = [pc EXCEPT ![s] = "reply"]
       ELSE /\ frame' = [frame EXCEPT ![s].stored = @ + 1,
                                       ![s].attempts = mail_attempts(env)]
            /\ pc' = [pc EXCEPT ![s] = "mail"]
    /\ last' = Obs(s, "store", session[s].state, FALSE, {}, {})
    /\ UNCHANGED <<session, env, gated, probe>>

\* One pass of the loop, with the issue taken back once delivery has failed
MailAttemptRollsBack(s, delivered) ==
    /\ pc[s] = "mail"
    /\ frame[s].attempts # <<>>
    /\ LET rest == Tail(frame[s].attempts)
           done == delivered \/ rest = <<>>
       IN /\ frame' = [frame EXCEPT
                         ![s].tried = Append(@, Head(frame[s].attempts)),
                         ![s].attempts = IF delivered THEN @ ELSE rest,
                         ![s].ok = IF done THEN {delivered} ELSE @]
          /\ pc' = [pc EXCEPT ![s] = IF done THEN "reply" ELSE "mail"]
          /\ ISSUE_STORE' = IF done /\ ~delivered
                            THEN [k \in DOMAIN ISSUE_STORE \ {frame[s].issue_id} |-> ISSUE_STORE[k]]
                            ELSE ISSUE_STORE
    /\ last' = Obs(s, "mail", session[s].state, FALSE, {}, {})
    /\ UNCHANGED <<session, env, gated, probe>>

\* One pass of the loop of send_mail_to_upstream: lines 237-261
MailAttempt(s, delivered) ==
    /\ pc[s] = "mail"
    /\ frame[s].attempts # <<>>
    /\ LET rest == Tail(frame[s].attempts)
           done == delivered \/ rest = <<>>
       IN /\ frame' = [frame EXCEPT
                         ![s].tried = Append(@, Head(frame[s].attempts)),
                         ![s].attempts = IF delivered THEN @ ELSE rest,
                         ![s].ok = IF done THEN {delivered} ELSE @]
          /\ pc' = [pc EXCEPT ![s] = IF done THEN "reply" ELSE "mail"]
    /\ last' = Obs(s, "mail", session[s].state, FALSE, {}, {})
    /\ UNCHANGED <<session, ISSUE_STORE, env, gated, probe>>

\* A pass of the loop raises an exception outside the except clause of line
\* 256 (a ValueError such as the UnicodeEncodeError server.login raises for a
\* non-ASCII password): it leaves send_mail_to_upstream and
\* create_and_send_issue and reaches the except clause of index(), lines
\* 349-352.  The record stored at line 266 stays.
MailAttemptRaises(s) ==
    /\ pc[s] = "mail"
    /\ frame[s].attempts # <<>>
    /\ session' = [session EXCEPT ![s] = on_exception(@, "mail failed")]
    /\ pc' = [pc EXCEPT ![s] = "idle"]
    /\ frame' = [frame EXCEPT ![s] = NoFrame]
    /\ last' = Obs(s, "mail_error", session[s].state, FALSE, {}, {})
    /\ UNCHANGED <<ISSUE_STORE, env, gated, probe>>

\* Back in index() with (issue_id, token, ok): lines 329-334
EscalationReply(s) ==
    /\ pc[s] = "reply"
    /\ session' = [session EXCEPT
                     ![s] = escalation_reply(@, frame[s].issue_id,
                                             CHOOSE ok \in frame[s].ok : TRUE)]
    /\ pc' = [pc EXCEPT ![s] = "idle"]
    /\ frame' = [frame EXCEPT ![s] = NoFrame]
    /\ last' = Obs(s, "reply", session[s].state, FALSE, {}, {})
    /\ UNCHANGED <<ISSUE_STORE, env, gated, probe>>

----------------------------------------------------------------------------
(* The conversation machine *)

NoProbe == [fn |-> "", arg |-> <<>>, ret |-> {}]

InitWith(envs) ==
    /\ session = [s \in Sessions |-> NewSession]
    /\ pc = [s \in Sessions |-> "idle"]
    /\ frame = [s \in Sessions |-> NoFrame]
    /\ ISSUE_STORE = [k \in {} |-> {}]
    /\ env \in envs
    /\ last = NoObs
    /\ gated = [s \in Sessions |-> {}]
    /\ probe = NoProbe

\* The transcript of s is shorter than cap: the model lets a turn that
\* appends to the transcript begin only then.
Room(s, cap) == Len(session[s].chat) < cap

\* A request of session s, its form fields and the collaborators' answers
\* drawn from the given sets
Request(s, texts, replies, cap) ==
    \/ \E a \in FormActions, raw \in texts : CloseTurn(s, a, raw)
    \/ \E a \in FormActions, raw \in texts : ResetTurn(s, a, raw)
    \/ \E a \in FormActions, raw \in texts : EmptyTurn(s, a, raw)
    \/ \E a \in FormActions, raw \in texts : Room(s, cap) /\ CollectFails(s, a, raw)
    \/ \E a \in FormActions, raw \in texts, content \in replies :
          Room(s, cap) /\ CollectTurn(s, a, raw, content)
    \/ \E a \in FormActions, raw \in texts : Room(s, cap) /\ ConfirmDecline(s, a, raw)
    \/ \E a \in FormActions, raw \in texts : Room(s, cap) /\ ConfirmRunFails(s, a, raw)
    \/ \E a \in FormActions, raw \in texts, unique \in FileTokens :
          Room(s, cap) /\ ConfirmRunRows(s, a, raw, unique)
    \/ \E a \in FormActions, raw \in texts, issue_id \in IssueIds :
          Room(s, cap) /\ ConfirmRunEmpty(s, a, raw, issue_id)
    \/ StoreIssue(s)
    \/ \E delivered \in BOOLEAN : MailAttempt(s, delivered)
    \/ MailAttemptRaises(s)
    \/ EscalationReply(s)

\* One browser session
Init == InitWith(MailEnvs)

Next == Request("s1", RawTexts, LlmReplies, MaxChat)

Spec == Init /\ [][Next]_vars

\* Two browser sessions served concurrently (Flask's threaded server), with
\* fewer texts and replies, one environment and shorter transcripts
ConcTexts == RawTexts \ {Chars("sku stock")}
ConcReplies == LlmReplies \ {Chars(" select 2 ")}
ConcEnvs == {e \in MailEnvs : e.creds /\ e.SMTP_PORT = {} /\ e.SMTP_USE_SSL = {}}

InitConc == InitWith(ConcEnvs)

NextConc == \E s \in Sessions : Request(s, ConcTexts, ConcReplies, MaxChatConc)

SpecConc == InitConc /\ [][NextConc]_vars

----------------------------------------------------------------------------
(* 14) The download route, explored with one session, one environment and  *)
(* transcripts long enough for two runs                                    *)

\* The <filetype> segment of the URL: any string
FileTypes == {"csv", "excel", "pdf"}

\* The observation of a download: sent holds the path given to send_file,
\* and is empty when the request is answered "File not available."
DownloadObs(s, filetype, sent) ==
    [s |-> s, op |-> "download", state |-> session[s].state, llm |-> FALSE,
     sql |-> {}, ran |-> {}, filetype |-> filetype, sent |-> sent]

\* files[filetype] of a dict with the keys csv and excel
FileOf(files, filetype) == IF filetype = "csv" THEN files.csv ELSE files.excel

\* The route that serves the csv file when the format asked for is unknown
download_file_defaults(s, filetype) ==
    /\ last' = DownloadObs(s, filetype,
                           {FileOf(files, IF filetype \in {"csv", "excel"}
                                          THEN filetype ELSE "csv") :
                               files \in session[s].latest_files})
    /\ UNCHANGED <<session, pc, frame, ISSUE_STORE, env, gated, probe>>

\* download_file: lines 359-365 (the flash is no part of the conversation)
download_file(s, filetype) ==
    /\ last' = DownloadObs(s, filetype,
                           IF session[s].latest_files = {} \/ filetype \notin {"csv", "excel"}
                           THEN {}
                           ELSE {FileOf(files, filetype) : files \in session[s].latest_files})
    /\ UNCHANGED <<session, pc, frame, ISSUE_STORE, env, gated, probe>>

FilesTexts == RawTexts \ {Chars("no")}
FilesReplies == {Chars(" select 2 ")}

InitFiles == InitWith(ConcEnvs)

NextFiles ==
    \/ Request("s1", FilesTexts, FilesReplies, MaxChatFiles)
    \/ \E filetype \in FileTypes : download_file("s1", filetype)

SpecFiles == InitFiles /\ [][NextFiles]_vars

----------------------------------------------------------------------------
(* The Safety Gate alone: is_safe_sql applied to every string built from   *)
(* at most MaxFrags fragments                                              *)

GateFragments ==
    {Chars("insert"), Chars("UPDATE"), Chars("Delete"), Chars("drop"), Chars("TRUNCATE"),
     Chars("alter"), Chars("Create"), Chars("REPLACE"), Chars("grant"), Chars("Revoke"),
     Chars("SELECT"), Chars("select"), Chars(" "), Chars("_")}

RECURSIVE Concats(_)
Concats(n) ==
    IF n = 0 THEN {<<>>}
    ELSE LET shorter == Concats(n - 1)
         IN shorter \cup {x \o f : x \in shorter, f \in GateFragments}

GateInputs == Concats(MaxFrags)

InitGate ==
    /\ session = [s \in Sessions |-> NewSession]
    /\ pc = [s \in Sessions |-> "idle"]
    /\ frame = [s \in Sessions |-> NoFrame]
    /\ ISSUE_STORE = [k \in {} |-> {}]
    /\ env \in ConcEnvs
    /\ last = NoObs
    /\ gated = [s \in Sessions |-> {}]
    /\ probe \in {[fn |-> "is_safe_sql", arg |-> x, ret |-> {}] : x \in GateInputs}

GateCall ==
    /\ probe.fn = "is_safe_sql" /\ probe.ret = {}
    /\ probe' = [probe EXCEPT !.ret = {is_safe_sql(probe.arg)}]
    /\ UNCHANGED <<session, pc, frame, ISSUE_STORE, env, last, gated>>

NextGate == GateCall

SpecGate == InitGate /\ [][NextGate]_vars

----------------------------------------------------------------------------
(* The Table Heuristic alone: detect_table applied to every question built *)
(* from at most MaxWords fragments, one keyword of each set among them     *)

TableFragments ==
    {Chars("Order"), Chars("SKU"), Chars("zone"), Chars("Stock"), Chars(" "), Chars("x")}

RECURSIVE Questions(_)
Questions(n) ==
    IF n = 0 THEN {<<>>}
    ELSE LET shorter == Questions(n - 1)
         IN shorter \cup {x \o f : x \in shorter, f \in TableFragments}

TableInputs == Questions(MaxWords)

InitTable ==
    /\ session = [s \in Sessions |-> NewSession]
    /\ pc = [s \in Sessions |-> "idle"]
    /\ frame = [s \in Sessions |-> NoFrame]
    /\ ISSUE_STORE = [k \in {} |-> {}]
    /\ env \in ConcEnvs
    /\ last = NoObs
    /\ gated = [s \in Sessions |-> {}]
    /\ probe \in {[fn |-> "detect_table", arg |-> x, ret |-> {}] : x \in TableInputs}

TableCall ==
    /\ probe.fn = "detect_table" /\ probe.ret = {}
    /\ probe' = [probe EXCEPT !.ret = {detect_table(probe.arg)}]
    /\ UNCHANGED <<session, pc, frame, ISSUE_STORE, env, last, gated>>

NextTable == TableCall

SpecTable == InitTable /\ [][NextTable]_vars

----------------------------------------------------------------------------
(* Claims *)

LastMsg(sess) == sess.chat[Len(sess.chat)]

\* The session after a full reset, written out
FreshSession ==
    [chat |-> <<[role |-> "assistant", content |-> Greeting]>>,
     state |-> "collect", pending_sql |-> {}, latest_files |-> {}]

\* chat2 is chat1 followed by exactly the messages more
Extends(chat1, chat2, more) == chat2 = chat1 \o more

\* C1: between requests a session holds a pending_sql if and only if its
\* state is "confirm".
C1_PendingIffConfirm ==
    \A s \in Sessions :
        pc[s] = "idle" => (session[s].pending_sql # {} <=> session[s].state = "confirm")

\* C2: every statement passed to run_sql_to_df is the pending_sql the session
\* held when the request began, was accepted by is_safe_sql in a collect turn
\* of that session, and is a statement the gate accepts.
C2_OnlyGatedStatementsRun ==
    [][\A s \in Sessions :
         (last'.s = s /\ last'.op \in {"run_error", "run_rows", "run_empty"})
         => /\ last'.ran = session[s].pending_sql
            /\ last'.ran \subseteq gated[s]
            /\ \A q \in last'.ran : is_safe_sql(q)]_vars

C2_Witness ==
    /\ last.op = "run_rows"
    /\ last.ran = {Chars("SELECT 1")}
    /\ last.ran \subseteq gated[last.s]

\* The position where the word that starts at position i of s ends
WordEnd(s, i) ==
    CHOOSE j \in i..Len(s) :
        /\ \A k \in i..j : WordChar(s[k])
        /\ (j = Len(s) \/ ~WordChar(s[j + 1]))

\* The words of s (its maximal runs of word characters), upper-cased
WordsUpper(s) ==
    {upper(SubSeq(s, i, WordEnd(s, i))) :
        i \in {k \in 1..Len(s) : WordChar(s[k]) /\ (k = 1 \/ ~WordChar(s[k - 1]))}}

HasBlockedWord(s) == WordsUpper(s) \cap WriteVerbs # {}

\* After the leading whitespace come the letters s, e, l, e, c, t in any case
StartsWithSelect(s) ==
    \E t \in 1..Len(s) :
        /\ \A k \in 1..(t - 1) : s[k] \in Whitespace
        /\ s[t] \notin Whitespace
        /\ t + 5 <= Len(s)
        /\ \A k \in 0..5 : upper_char(s[t + k]) = Chars("SELECT")[k + 1]

\* C3: is_safe_sql accepts exactly the strings that hold no block-listed verb
\* as a whole word (any letter case) and start, trimmed and upper-cased, with
\* SELECT; a block-listed verb rejects even after SELECT, and a string not
\* starting with SELECT is rejected.
C3_GateAcceptsExactly ==
    (probe.fn = "is_safe_sql" /\ probe.ret # {})
    => /\ probe.ret = {~HasBlockedWord(probe.arg) /\ StartsWithSelect(probe.arg)}
       /\ (HasBlockedWord(probe.arg) => probe.ret = {FALSE})
       /\ (~StartsWithSelect(probe.arg) => probe.ret = {FALSE})

C3_Witness ==
    /\ probe.ret = {FALSE}
    /\ probe.arg = Chars("select") \o Chars(" ") \o Chars("drop")

\* C4: a close phrase, in either state and with either action, leaves the
\* session fully reset (state collect, no pending_sql, no latest_files, the
\* transcript the single greeting) and calls neither the synthesizer nor the
\* database.
C4_CloseResets ==
    [][\A s \in Sessions :
         (last'.s = s /\ last'.op = "close")
         => /\ session'[s] = FreshSession
            /\ ~last'.llm /\ last'.sql = {} /\ last'.ran = {}
            /\ ISSUE_STORE' = ISSUE_STORE]_vars

C4_Witness ==
    /\ last.op = "close" /\ last.state = "confirm"
    /\ session[last.s] = FreshSession
    /\ gated[last.s] # {}

\* C5: in collect, a message whose synthesized query the gate accepts
\* stores exactly that query as pending_sql, appends the user text and the
\* yes/no prompt, moves to confirm, and runs nothing.
C5_AcceptedIsPending ==
    [][\A s \in Sessions :
         (last'.s = s /\ last'.op = "collect" /\ \A q \in last'.sql : is_safe_sql(q))
         => /\ session[s].state = "collect"
            /\ session'[s].pending_sql = last'.sql
            /\ session'[s].state = "confirm"
            /\ \E text \in {strip(raw) : raw \in RawTexts} :
                  Extends(session[s].chat, session'[s].chat,
                          <<Msg("user", text), Msg("assistant", PromptMsg)>>)
            /\ last'.ran = {}
            /\ ISSUE_STORE' = ISSUE_STORE /\ pc'[s] = "idle"]_vars

\* The accepted query replaces one left over from an earlier turn.
C5_Witness ==
    /\ last.op = "collect"
    /\ last.sql = {Chars("select 2")}
    /\ session[last.s].state = "confirm"
    /\ session[last.s].pending_sql = {Chars("select 2")}
    /\ Chars("SELECT 1") \in gated[last.s]

\* C6: in collect, a synthesized query the gate rejects leaves the session in
\* collect with its pending_sql as it was and not the rejected query, appends
\* the rejection message and runs nothing; and no statement the gate rejects
\* is ever passed to run_sql_to_df.
C6_RejectedNeverRuns ==
    /\ [][\A s \in Sessions :
            (last'.s = s /\ last'.op = "collect" /\ \E q \in last'.sql : ~is_safe_sql(q))
            => /\ session'[s].state = "collect"
               /\ session'[s].pending_sql = session[s].pending_sql
               /\ session'[s].pending_sql \cap last'.sql = {}
               /\ LastMsg(session'[s]) = Msg("assistant", RejectMsg)
               /\ Len(session'[s].chat) = Len(session[s].chat) + 2
               /\ last'.ran = {}]_vars
    /\ [](\A q \in last.ran : is_safe_sql(q))

C6_Witness ==
    /\ last.op = "collect"
    /\ last.sql = {Chars("DROP TABLE orders;")}
    /\ session[last.s].state = "collect"
    /\ LastMsg(session[last.s]) = Msg("assistant", RejectMsg)

\* C7: in confirm, a text other than yes/y discards pending_sql, appends the
\* decline acknowledgement, returns to collect and runs nothing.
C7_DeclineDiscards ==
    last.op = "decline"
    => /\ session[last.s].pending_sql = {}
       /\ session[last.s].state = "collect"
       /\ LastMsg(session[last.s]) = Msg("assistant", DeclineMsg)
       /\ last.ran = {}

C9_RecordedBeforeDelivery ==
    /\ [](\A s \in Sessions :
            /\ pc[s] = "store" => frame[s].tried = <<>>
            /\ pc[s] \in {"mail", "reply"}
               => /\ frame[s].issue_id \in DOMAIN ISSUE_STORE
                  /\ ISSUE_STORE[frame[s].issue_id] \in frame[s].record
            /\ (pc[s] = "reply" /\ ~env.creds) => frame[s].tried = <<>>)
    /\ [][\A s \in Sessions :
            /\ (last'.s = s /\ last'.op \in {"mail", "reply"})
               => ISSUE_STORE' = ISSUE_STORE
            /\ (last'.s = s /\ last'.op = "reply" /\ frame[s].ok = {FALSE})
               => /\ LastMsg(session'[s]) = Msg("assistant", MailFailedMsg(frame[s].issue_id))
                  /\ frame[s].issue_id \in DOMAIN ISSUE_STORE']_vars

\* Every attempt failed, and the issue is still recorded.
C9_Witness ==
    /\ last.op = "reply"
    /\ env.creds /\ env.SMTP_PORT = {} /\ env.SMTP_USE_SSL = {}
    /\ \E id \in DOMAIN ISSUE_STORE :
          LastMsg(session[last.s]) = Msg("assistant", MailFailedMsg(id))

\* C10: every create_and_send_issue call stores under an id no earlier call
\* used, so no write replaces the record of another call.
C10_IdsNeverCollide ==
    [][\A s \in Sessions :
         (last'.s = s /\ last'.op = "store")
         => frame[s].issue_id \notin DOMAIN ISSUE_STORE]_vars

\* The branches of a turn that end in the except clause of index()
ErrorOps == {"collect_error", "run_error", "mail_error"}

\* C11: a failure of the synthesizer (collect), of the data access (confirm)
\* or inside the escalation ends the request with the error message appended
\* by the assistant right after the user's message and the session idle in
\* state collect; and the next message of the session is taken as a new
\* question: it goes to the synthesizer.
C11_FailuresAreCaught ==
    /\ [](\A s \in Sessions :
            (last.s = s /\ last.op \in ErrorOps)
            => /\ session[s].state = "collect"
               /\ pc[s] = "idle"
               /\ LastMsg(session[s]).role = "assistant"
               /\ LastMsg(session[s]).content[1] = "Error: "
               /\ session[s].chat[Len(session[s].chat) - 1].role = "user")
    /\ [][\A s \in Sessions :
            (last.s = s /\ last.op \in ErrorOps /\ last'.s = s
               /\ last'.op \notin {"close", "reset", "empty"})
            => /\ last'.op \in {"collect", "collect_error"}
               /\ last'.llm
               /\ last'.ran = {}]_vars

\* A question asked right after the failure of an escalation was answered
\* with the yes/no prompt.
C11_Witness ==
    /\ last.op = "collect" /\ session[last.s].state = "confirm"
    /\ Len(session[last.s].chat) = 7
    /\ session[last.s].chat[5] = Msg("assistant", ErrorMsg("mail failed"))
    /\ session[last.s].chat[6].role = "user"
    /\ LastMsg(session[last.s]) = Msg("assistant", PromptMsg)
    /\ ISSUE_STORE # << >>

\* Some keyword of the set occurs in the text, letter case ignored
Matches(keywords, text) ==
    \E i \in 1..Len(text), j \in 1..Len(text) : lower(SubSeq(text, i, j)) \in keywords

\* C12: detect_table returns one label for every question, fixed by which
\* keyword sets match and by the priority order > sku > location > inventory:
\* an order match gives an order label whatever else matches, else a sku
\* match a sku label, else a location match a location label, else an
\* inventory match "inventory", and no match "order_header".
C12_TablePriority ==
    (probe.fn = "detect_table" /\ probe.ret # {})
    => LET o == Matches(ORDER_KEYWORDS, probe.arg)
           k == Matches(SKU_KEYWORDS, probe.arg)
           l == Matches(LOCATION_KEYWORDS, probe.arg)
           i == Matches(INVENTORY_KEYWORDS, probe.arg)
       IN /\ Cardinality(probe.ret) = 1
          /\ o => probe.ret = {IF k THEN "order_header JOIN order_line" ELSE "order_header"}
          /\ (~o /\ k) => probe.ret = {IF i THEN "sku JOIN inventory" ELSE "sku"}
          /\ (~o /\ ~k /\ l)
             => probe.ret = {IF i THEN "location JOIN inventory" ELSE "location"}
          /\ (~o /\ ~k /\ ~l /\ i) => probe.ret = {"inventory"}
          /\ (~o /\ ~k /\ ~l /\ ~i) => probe.ret = {"order_header"}

\* All four sets match and the order label wins.
C12_Witness ==
    /\ probe.fn = "detect_table"
    /\ probe.arg = Chars("Stock") \o Chars("zone") \o Chars("SKU") \o Chars("Order")
    /\ probe.ret = {"order_header JOIN order_line"}

\* C13: a stored issue is never changed or removed by a later step of any
\* session, and every stored issue has a non-empty id and status "open".
C13_IssuesImmutable ==
    /\ [][\A k \in DOMAIN ISSUE_STORE :
            k \in DOMAIN ISSUE_STORE' /\ ISSUE_STORE'[k] = ISSUE_STORE[k]]_vars
    /\ [](\A k \in DOMAIN ISSUE_STORE : k # "" /\ ISSUE_STORE[k].status = "open")

\* The question that produced the pending query: the user message right
\* before the latest yes/no prompt of the transcript
OriginalQuestion(chat) ==
    LET prompts == {i \in 2..Len(chat) : chat[i] = Msg("assistant", PromptMsg)}
        latest == CHOOSE i \in prompts : \A j \in prompts : j <= i
    IN chat[latest - 1].content

\* C14: the issue an empty-result escalation stores holds the original
\* question (the text of the collect turn that produced the executed query),
\* the executed query, and the label detect_table gives that question.
C14_IssueRecordsQuestion ==
    [][\A s \in Sessions :
         (last'.s = s /\ last'.op = "store")
         => LET issue == ISSUE_STORE'[frame[s].issue_id]
                asked == OriginalQuestion(session[s].chat)
            IN /\ issue.sql \in last.ran
               /\ issue.question = asked
               /\ issue.table = detect_table(asked)]_vars

\* The branches of a turn that reach line 307
TurnOps == {"collect", "collect_error", "decline", "run_error", "run_rows", "run_empty"}

\* C15: a turn that is neither a close phrase, a reset nor empty extends the
\* transcript by the user's text (trimmed, letter case kept) followed only by
\* assistant messages; when the synthesizer or the data access fails the
\* transcript ends with that user message and the error message; the reply
\* or the error message of an escalation comes right after the user message.
C15_UserTextFirst ==
    [][\A s \in Sessions :
         LET old == session[s].chat
             new == session'[s].chat
         IN /\ (last'.s = s /\ last'.op \in TurnOps)
               => /\ Len(new) > Len(old)
                  /\ SubSeq(new, 1, Len(old)) = old
                  /\ new[Len(old) + 1] \in {Msg("user", strip(raw)) : raw \in MessageRaw}
                  /\ \A k \in (Len(old) + 2)..Len(new) : new[k].role = "assistant"
                  /\ last'.op \in {"collect_error", "run_error"}
                     => /\ Len(new) = Len(old) + 2
                        /\ new[Len(new)].content[1] = "Error: "
                  /\ last'.op = "run_empty" => Len(new) = Len(old) + 1
            /\ (last'.s = s /\ last'.op \in {"reply", "mail_error"})
               => /\ old[Len(old)].role = "user"
                  /\ Len(new) = Len(old) + 1
                  /\ SubSeq(new, 1, Len(old)) = old
                  /\ new[Len(new)].role = "assistant"
            /\ (last'.s = s /\ last'.op \in {"store", "mail"}) => new = old]_vars

\* The synthesizer failed on the text " Yes" submitted in collect: the
\* transcript ends with the trimmed text, its capital kept, and the error
\* message.
C15_Witness ==
    /\ last.op = "collect_error"
    /\ Len(session[last.s].chat) = 3
    /\ session[last.s].chat[2] = Msg("user", Chars("Yes"))
    /\ session[last.s].chat[3] = Msg("assistant", ErrorMsg("synthesis failed"))

\* C16: a message that is empty after trimming leaves the session (state,
\* pending_sql, latest_files, transcript) as it was, in collect and in
\* confirm, and calls neither the synthesizer nor the database; the message
\* after an empty one in confirm is still taken as the answer to the prompt.
C16_EmptyTextNoChange ==
    [][\A s \in Sessions :
         /\ (last'.s = s /\ last'.op = "empty")
            => /\ session'[s] = session[s]
               /\ last'.state = session'[s].state
               /\ ~last'.llm /\ last'.sql = {} /\ last'.ran = {}
               /\ ISSUE_STORE' = ISSUE_STORE /\ pc'[s] = "idle"
         /\ (last.s = s /\ last.op = "empty" /\ last.state = "confirm"
               /\ last'.s = s /\ last'.op \in TurnOps)
            => /\ last'.op \in {"decline", "run_error", "run_rows", "run_empty"}
               /\ last'.ran \subseteq session[s].pending_sql]_vars

\* An empty message while a query awaits confirmation
C16_Witness ==
    /\ last.op = "empty" /\ last.state = "confirm"
    /\ session[last.s].state = "confirm"
    /\ session[last.s].pending_sql = {Chars("SELECT 1")}
    /\ LastMsg(session[last.s]) = Msg("assistant", PromptMsg)

\* C17: a request with action "reset" leaves the session reinitialized (state
\* collect, the transcript the single greeting, no pending_sql, no
\* latest_files) whatever the state and whatever the text, a close phrase
\* included; the text is not appended and no collaborator is called.
C17_ResetReinitializes ==
    [][\A s \in Sessions :
         /\ \A raw \in RawTexts :
               (CloseTurn(s, "reset", raw) \/ ResetTurn(s, "reset", raw))
               => /\ last'.s = s /\ last'.op \in {"reset", "close"}
                  /\ session'[s] = FreshSession
         /\ (last'.s = s /\ last'.op = "reset")
            => /\ session'[s] = FreshSession
               /\ ~last'.llm /\ last'.sql = {} /\ last'.ran = {}
               /\ ISSUE_STORE' = ISSUE_STORE /\ pc'[s] = "idle"]_vars

\* A reset while a query awaits confirmation
C17_Witness ==
    /\ last.op = "reset" /\ last.state = "confirm"
    /\ session[last.s] = FreshSession
    /\ gated[last.s] # {}

\* SMTP_PORT or SMTP_USE_SSL is set
Pinned(e) == e.SMTP_PORT # {} \/ e.SMTP_USE_SSL # {}

\* The transports in the order the claim gives them, as <<use_ssl, port>>
Fallback == <<<<TRUE, 465>>, <<FALSE, 587>>>>

\* C18: the attempts of send_mail_to_upstream are a prefix of a fixed list:
\* SSL:465 then STARTTLS:587 when nothing is pinned, one attempt when a port
\* or the SSL switch is pinned; no attempt is repeated; an attempt is made
\* only while all earlier ones failed; the call returns true right at the
\* first success and false only with the whole list tried; every pass of the
\* loop adds one attempt, so the call ends after at most two passes.
C18_MailAttemptsBounded ==
    /\ [](\A s \in Sessions :
            LET tried == frame[s].tried
            IN /\ Pinned(env) => Len(tried) <= 1
               /\ ~Pinned(env) => tried \in {<<>>, SubSeq(Fallback, 1, 1), Fallback}
               /\ \A i, j \in 1..Len(tried) : i # j => tried[i] # tried[j]
               /\ pc[s] = "mail" => frame[s].ok = {}
               /\ (pc[s] = "reply" /\ env.creds)
                  => /\ Len(tried) >= 1
                     /\ frame[s].ok = {FALSE}
                        => Len(tried) = IF Pinned(env) THEN 1 ELSE 2)
    /\ [][\A s \in Sessions :
            (last'.s = s /\ last'.op = "mail")
            => /\ frame[s].ok = {}
               /\ Len(frame'[s].tried) = Len(frame[s].tried) + 1
               /\ SubSeq(frame'[s].tried, 1, Len(frame[s].tried)) = frame[s].tried
               /\ frame'[s].ok = {TRUE} => pc'[s] = "reply"
               /\ pc'[s] = "mail" => (~Pinned(env) /\ Len(frame'[s].tried) = 1)]_vars

\* Nothing pinned: SSL:465 failed, STARTTLS:587 delivered.
C18_Witness ==
    \E s \in Sessions :
        /\ pc[s] = "reply" /\ ~Pinned(env)
        /\ frame[s].tried = Fallback
        /\ frame[s].ok = {TRUE}

\* The two paths of one run, written out for the token u
PathsOf(u) == [csv |-> <<"results_", u, ".csv">>, excel |-> <<"results_", u, ".xlsx">>]

HasLinks(chat) == \E i \in 1..Len(chat) : chat[i] = Msg("assistant", LinksMsg)

\* C19: in confirm, a yes whose query returns rows records as latest_files a
\* csv path and an excel path built from one token drawn by the run, writes
\* nothing to ISSUE_STORE and returns to collect; a yes whose query returns no
\* rows, through all the steps of its escalation, leaves latest_files as it
\* was.
C19_RowsRecordFiles ==
    [][\A s \in Sessions :
         /\ (last'.s = s /\ last'.op = "run_rows")
            => /\ last'.state = "confirm"
               /\ \E u \in FileTokens : session'[s].latest_files = {PathsOf(u)}
               /\ ISSUE_STORE' = ISSUE_STORE
               /\ session'[s].state = "collect" /\ pc'[s] = "idle"
         /\ (last'.s = s /\ last'.op \in {"run_empty", "store", "mail", "mail_error", "reply"})
            => session'[s].latest_files = session[s].latest_files]_vars

\* An escalation ended after an earlier run had recorded files: they are
\* still the session's latest_files.
C19_Witness ==
    /\ last.op = "reply"
    /\ session[last.s].latest_files = {PathsOf("c4d2e6f0")}
    /\ HasLinks(session[last.s].chat)
    /\ ISSUE_STORE # << >>

\* C20: a download sends a file only for csv or excel and only when the
\* session holds latest_files, and then the path latest_files has for that
\* format; latest_files is set only by a run that returned rows (to the
\* paths of that run) and removed only by a close phrase or a reset, so the
\* file sent is that of the latest such run since the last reset; with no
\* such run since the last reset, and right after a close or a reset, every
\* download is answered "File not available" and nothing is sent.
C20_DownloadServesLatest ==
    /\ [][\A s \in Sessions :
            /\ (last'.s = s /\ last'.op = "download")
               => /\ session'[s] = session[s]
                  /\ last'.sent # {}
                     <=> (last'.filetype \in {"csv", "excel"} /\ session[s].latest_files # {})
                  /\ \A files \in session[s].latest_files :
                        /\ last'.filetype = "csv" => last'.sent = {files.csv}
                        /\ last'.filetype = "excel" => last'.sent = {files.excel}
                  /\ ~HasLinks(session[s].chat) => last'.sent = {}
                  /\ (last.s = s /\ last.op \in {"close", "reset"}) => last'.sent = {}
            /\ session'[s].latest_files # session[s].latest_files
               => /\ last'.s = s /\ last'.op \in {"run_rows", "close", "reset"}
                  /\ last'.op \in {"close", "reset"} => session'[s].latest_files = {}]_vars
    /\ [](\A s \in Sessions :
            /\ session[s].latest_files # {} => HasLinks(session[s].chat)
            /\ \A files \in session[s].latest_files : \E u \in FileTokens : files = PathsOf(u))

\* Two runs returned rows since the last reset and the excel file of a run
\* is sent.
C20_Witness ==
    /\ last.op = "download" /\ last.filetype = "excel"
    /\ last.sent = {<<"results_", "c4d2e6f0", ".xlsx">>}
    /\ Cardinality({i \in 1..Len(session[last.s].chat) :
                       session[last.s].chat[i] = Msg("assistant", LinksMsg)}) = 2

====
